---- MODULE Spec2Model ----
(***************************************************************************)
(* BracketMaster (src/src/extension.ts): the "select enclosing" command of *)
(* a VS Code extension.  Two matchers, findEnclosingBrackets and           *)
(* findEnclosingTags, look for the innermost bracket pair / markup tag     *)
(* pair around a cursor; the command ranks their results with              *)
(* compareRanges and replaces every cursor's selection by the winner.      *)
(* activate also keeps one "keybinding trigger" command registered under   *)
(* the configured shortcut.                                                *)
(*                                                                         *)
(* Three specifications share the variables:                               *)
(*   Spec      the editor and the command handler (whole handler steps)    *)
(*   SpecScan  one run of one matcher, one loop iteration per step         *)
(*   SpecKeys  activation and configuration-change events                  *)
(* A document is a sequence of one-character strings; offsets are the      *)
(* 0-based offsets of the source, so offset o names text[o + 1].           *)
(***************************************************************************)
EXTENDS Integers, Sequences, FiniteSets, TLC

VARIABLES
    text,                 \* document.getText()
    position,             \* SpecScan: the cursor the matcher is run for
    matcher,              \* SpecScan: which matcher runs
    pc,                   \* SpecScan: the loop the matcher is in
    i,                    \* SpecScan: loop variable i of either matcher
    bestRange,            \* SpecScan: local bestRange of the matcher
    lastIndex,            \* SpecScan: lastIndex of the regex in use
    tags,                 \* SpecScan: the TagInfo array
    depth,                \* SpecScan: depth of the closing-tag scan
    steps,                \* SpecScan: loop iterations the call has run
    activeEditor,         \* Spec: vscode.window.activeTextEditor is defined
    selections,           \* Spec: editor.selections
    prior,                \* Spec: editor.selections when the command last started
    ran,                  \* Spec: the command handler has run
    shortcut,             \* SpecKeys: configuration bracketTagSelector.shortcut
    commands,             \* SpecKeys: command ids registered with the host
    keybindingDisposable, \* SpecKeys: the closure variable of activate
    subscriptions,        \* SpecKeys: context.subscriptions
    failed,               \* SpecKeys: a registerCommand call threw
    events                \* SpecKeys: configuration-change events delivered

vars == <<text, position, matcher, pc, i, bestRange, lastIndex, tags, depth, steps,
          activeEditor, selections, prior, ran,
          shortcut, commands, keybindingDisposable, subscriptions, failed,
          events>>

scanVars == <<position, matcher, pc, i, bestRange, lastIndex, tags, depth, steps>>
editorVars == <<activeEditor, selections, prior, ran>>
keyVars == <<shortcut, commands, keybindingDisposable, subscriptions, failed, events>>

(***************************************************************************)
(* Bounds and input alphabets                                              *)
(***************************************************************************)

\* Documents are concatenations of at most MaxTokens tokens.
MaxTokens == 4

\* At most MaxUpdates configuration-change events are delivered.
MaxUpdates == 4

NL == "\n"

BracketTokens == {<<"(">>, <<")">>, <<"[">>, <<"]">>, <<NL>>}

TagTokens == {<<"<", "a", ">">>, <<"<", "/", "a", ">">>,
              <<"<", "a", "b", ">">>, <<"<", "/", "a", "b", ">">>}

MixedTokens == {<<"<", "a", ">">>, <<"<", "/", "a", ">">>, <<"(">>, <<")">>, <<NL>>}

RECURSIVE Concats(_, _)
Concats(T, n) ==
    IF n = 0 THEN {<<>>}
    ELSE LET S == Concats(T, n - 1) IN S \cup {s \o t : s \in S, t \in T}

BracketTexts == Concats(BracketTokens, MaxTokens)
TagTexts == Concats(TagTokens, MaxTokens)
MixedTexts == Concats(MixedTokens, MaxTokens)

(***************************************************************************)
(* The host's document, Position and Range (vscode API as the source uses  *)
(* it)                                                                     *)
(***************************************************************************)

Null == [kind |-> "null"]

Undefined == "undefined"

\* text[o] of the source: undefined outside 0 .. text.length - 1.
CharAt(doc, o) == IF o >= 0 /\ o < Len(doc) THEN doc[o + 1] ELSE Undefined

Position(l, c) == [line |-> l, character |-> c]

\* Position.compareTo / isBeforeOrEqual: line first, then character.
PosLE(a, b) == a.line < b.line \/ (a.line = b.line /\ a.character <= b.character)

PosLT(a, b) == a.line < b.line \/ (a.line = b.line /\ a.character < b.character)

compareTo(a, b) == IF PosLT(a, b) THEN -1 ELSE IF PosLT(b, a) THEN 1 ELSE 0

\* Offsets of the line breaks before offset o.
BreaksBefore(doc, o) == {k \in 0 .. o - 1 : CharAt(doc, k) = NL}

Max(S) == CHOOSE m \in S : \A k \in S : k <= m

Min(S) == CHOOSE m \in S : \A k \in S : m <= k

\* document.positionAt: the offset is clamped to the document, the line is
\* the number of line breaks before it, the character the distance from
\* the line's start.
positionAt(doc, o) ==
    LET off == IF o < 0 THEN 0 ELSE IF o > Len(doc) THEN Len(doc) ELSE o
        brk == BreaksBefore(doc, off)
        lineStart == IF brk = {} THEN 0 ELSE Max(brk) + 1
    IN  Position(Cardinality(brk), off - lineStart)

\* Offsets of the document's line breaks.
Breaks(doc) == {k \in 0 .. Len(doc) - 1 : doc[k + 1] = NL}

\* Offset at which line l starts; Len(doc) + 1 when the document has no line l.
LineStart(doc, l) ==
    IF l = 0 THEN 0
    ELSE LET B == Breaks(doc)
             S == {k \in B : Cardinality({j \in B : j < k}) = l - 1}
         IN  IF S = {} THEN Len(doc) + 1 ELSE Min(S) + 1

\* Length of line l without its line break.
LineLength(doc, l) ==
    LET s == LineStart(doc, l)
        E == {k \in Breaks(doc) : k >= s}
    IN  (IF E = {} THEN Len(doc) ELSE Min(E)) - s

LineCount(doc) == Cardinality(Breaks(doc)) + 1

\* document.offsetAt: the position is validated (clamped to the document
\* and to its line) and mapped to the offset.
offsetAt(doc, p) ==
    LET n == LineCount(doc)
        l == IF p.line >= n THEN n - 1 ELSE p.line
        len == LineLength(doc, l)
        c == IF p.line >= n THEN len
             ELSE IF p.character > len THEN len
             ELSE p.character
    IN  LineStart(doc, l) + c

\* new vscode.Range(a, b): start is the smaller position, end the larger.
Range(a, b) == IF PosLE(a, b) THEN [start |-> a, end |-> b] ELSE [start |-> b, end |-> a]

\* range.contains(position)
containsPos(r, p) == PosLE(r.start, p) /\ PosLE(p, r.end)

\* range.contains(otherRange)
containsRange(r, q) == containsPos(r, q.start) /\ containsPos(r, q.end)

\* new vscode.Selection(anchor, active)
Selection(a, b) == [anchor |-> a, active |-> b]

(***************************************************************************)
(* findEnclosingBrackets (lines 12-52)                                     *)
(***************************************************************************)

brackets == <<<<"(", ")">>, <<"[", "]">>, <<"{", "}">>>>

\* The undefined that brackets.find returns when no pair matches.
NoPair == <<>>

\* brackets.find(pair => pair[0] === char): the first pair opened by char.
bracketPairOf(char) ==
    LET S == {k \in 1 .. Len(brackets) : brackets[k][1] = char}
    IN  IF S = {} THEN NoPair ELSE brackets[Min(S)]

\* The mutant of bracketClose: the first closing character closes the pair,
\* whatever the depth.
bracketCloseFirst(doc, pair, j, d) ==
    LET S == {k \in j .. Len(doc) - 1 : CharAt(doc, k) = pair[2]}
    IN  IF S = {} THEN -1 ELSE Min(S)

\* The inner loop (lines 29-48) from j with the given depth: the offset at
\* which depth reaches 0, or -1 when the text ends first.
RECURSIVE bracketClose(_, _, _, _)
bracketClose(doc, pair, j, d) ==
    IF j >= Len(doc) THEN -1
    ELSE IF CharAt(doc, j) = pair[1] THEN bracketClose(doc, pair, j + 1, d + 1)
    ELSE IF CharAt(doc, j) = pair[2]
         THEN IF d - 1 = 0 THEN j ELSE bracketClose(doc, pair, j + 1, d - 1)
    ELSE bracketClose(doc, pair, j + 1, d)

\* The mutant of accepts: the guard on bestRange is dropped.
acceptsAnyContaining(best, range, pos) == containsPos(range, pos)

\* The condition of lines 41-42 and 96-97:
\* range.contains(position) && (!bestRange || bestRange.contains(range)).
accepts(best, range, pos) ==
    containsPos(range, pos) /\ (best = Null \/ containsRange(best, range))

\* The mutant of bracketInterior: the range starts on the opening bracket.
bracketInteriorFromOpener(doc, idx, j) == Range(positionAt(doc, idx), positionAt(doc, j))

\* Lines 36-39: the interior of the pair opened at idx and closed at j.
bracketInterior(doc, idx, j) == Range(positionAt(doc, idx + 1), positionAt(doc, j))

\* One iteration of the backward loop (lines 24-49): the new bestRange.
bracketBody(doc, pos, idx, best) ==
    LET pair == bracketPairOf(CharAt(doc, idx))
    IN  IF pair = NoPair THEN best
        ELSE LET j == bracketClose(doc, pair, idx + 1, 1)
                 range == bracketInterior(doc, idx, j)
             IN  IF j = -1 THEN best
                 ELSE IF accepts(best, range, pos) THEN range
                 ELSE best

\* The backward loop (line 23) from idx down to 0.
RECURSIVE bracketLoop(_, _, _, _)
bracketLoop(doc, pos, idx, best) ==
    IF idx < 0 THEN best
    ELSE bracketLoop(doc, pos, idx - 1, bracketBody(doc, pos, idx, best))

findEnclosingBrackets(doc, pos) == bracketLoop(doc, pos, offsetAt(doc, pos), Null)

(***************************************************************************)
(* findEnclosingTags (lines 54-109)                                        *)
(***************************************************************************)

\* \w of the regular expressions, as far as the documents' alphabet goes.
WordChars == {"a", "b"}

\* The first offset q >= p holding ">", or -1.
RECURSIVE FirstGt(_, _)
FirstGt(doc, p) ==
    IF p >= Len(doc) THEN -1
    ELSE IF CharAt(doc, p) = ">" THEN p
    ELSE FirstGt(doc, p + 1)

\* The offset just past the longest run of word characters starting at p.
RECURSIVE WordRunEnd(_, _)
WordRunEnd(doc, p) == IF CharAt(doc, p) \in WordChars THEN WordRunEnd(doc, p + 1) ELSE p

\* The document holds the characters s at offset p.
StartsWith(doc, p, s) == p + Len(s) <= Len(doc) /\ SubSeq(doc, p + 1, p + Len(s)) = s

\* /<(\w+)[^>]*>/ (line 61) matches at p: "<", a word character and a
\* later ">".
tagOpensAt(doc, p) ==
    /\ CharAt(doc, p) = "<"
    /\ CharAt(doc, p + 1) \in WordChars
    /\ FirstGt(doc, p + 1) # -1

\* The first offset p >= from at which openingTagRegex matches, or -1.
RECURSIVE openingIndex(_, _)
openingIndex(doc, from) ==
    IF from >= Len(doc) THEN -1
    ELSE IF tagOpensAt(doc, from) THEN from
    ELSE openingIndex(doc, from + 1)

\* openingTagRegex.exec(text) with lastIndex = from (lines 61, 66): the
\* leftmost match; the name is the longest word run, the match ends just
\* past the first ">".
openingExec(doc, from) ==
    LET p == openingIndex(doc, from)
    IN  IF p = -1 THEN Null
        ELSE [index |-> p,
              name |-> SubSeq(doc, p + 2, WordRunEnd(doc, p + 1)),
              end |-> FirstGt(doc, p + 1) + 1]

\* One iteration of the tokenizing loop (lines 66-75): whether the loop goes
\* on, the regex's lastIndex and the tags array after it.
tokenizeBody(doc, off, from, tgs) ==
    LET m == openingExec(doc, from)
    IN  IF m = Null THEN [go |-> FALSE, lastIndex |-> 0, tags |-> tgs]
        ELSE IF m.index > off THEN [go |-> FALSE, lastIndex |-> m.end, tags |-> tgs]
        ELSE IF m.name # <<>>
             THEN [go |-> TRUE, lastIndex |-> m.end, tags |-> Append(tgs, m)]
             ELSE [go |-> TRUE, lastIndex |-> m.end, tags |-> tgs]

RECURSIVE tokenizeLoop(_, _, _, _)
tokenizeLoop(doc, off, from, tgs) ==
    LET r == tokenizeBody(doc, off, from, tgs)
    IN  IF r.go THEN tokenizeLoop(doc, off, r.lastIndex, r.tags) ELSE r.tags

\* The alternative <name[^>]*> of closingTagRegex (line 82) matches at p.
opensAt(doc, name, p) ==
    /\ CharAt(doc, p) = "<"
    /\ StartsWith(doc, p + 1, name)
    /\ FirstGt(doc, p + 1 + Len(name)) # -1

\* The alternative </name> of closingTagRegex (line 82) matches at p.
closesAt(doc, name, p) ==
    /\ CharAt(doc, p) = "<"
    /\ CharAt(doc, p + 1) = "/"
    /\ StartsWith(doc, p + 2, name)
    /\ CharAt(doc, p + 2 + Len(name)) = ">"

\* The first offset p >= from at which closingTagRegex (line 82) matches,
\* or -1.
RECURSIVE closingIndex(_, _, _)
closingIndex(doc, name, from) ==
    IF from >= Len(doc) THEN -1
    ELSE IF closesAt(doc, name, from) \/ opensAt(doc, name, from) THEN from
    ELSE closingIndex(doc, name, from + 1)

\* The mutant of closingExec: the regex lacks the g flag, so every exec
\* searches from the start of the text.
closingExecFromStart(doc, name, from) ==
    LET p == closingIndex(doc, name, 0)
    IN  IF p = -1 THEN Null
        ELSE IF closesAt(doc, name, p)
             THEN [index |-> p, end |-> p + Len(name) + 3, closing |-> TRUE]
             ELSE [index |-> p, end |-> FirstGt(doc, p + 1 + Len(name)) + 1,
                   closing |-> FALSE]

\* closingTagRegex.exec(text) with lastIndex = from (lines 82-86): the
\* leftmost match at or after from; the alternative </name> is tried first.
closingExec(doc, name, from) ==
    LET p == closingIndex(doc, name, from)
    IN  IF p = -1 THEN Null
        ELSE IF closesAt(doc, name, p)
             THEN [index |-> p, end |-> p + Len(name) + 3, closing |-> TRUE]
             ELSE [index |-> p, end |-> FirstGt(doc, p + 1 + Len(name)) + 1,
                   closing |-> FALSE]

\* One iteration of the closing scan (lines 86-105): "closed" with the
\* closing tag's offset when depth returns to 0, "none" when the regex
\* finds nothing more, "scan" otherwise.
closingBody(doc, name, from, d) ==
    LET m == closingExec(doc, name, from)
    IN  IF m = Null THEN [state |-> "none", index |-> -1, lastIndex |-> 0, depth |-> d]
        ELSE IF m.closing
             THEN IF d - 1 = 0
                  THEN [state |-> "closed", index |-> m.index, lastIndex |-> m.end,
                        depth |-> 0]
                  ELSE [state |-> "scan", index |-> -1, lastIndex |-> m.end,
                        depth |-> d - 1]
        ELSE [state |-> "scan", index |-> -1, lastIndex |-> m.end, depth |-> d + 1]

\* The closing scan from lastIndex = from at depth d: the offset of the
\* closing tag at which depth returns to 0, or -1.
RECURSIVE tagClose(_, _, _, _)
tagClose(doc, name, from, d) ==
    LET r == closingBody(doc, name, from, d)
    IN  IF r.state = "scan" THEN tagClose(doc, name, r.lastIndex, r.depth) ELSE r.index

\* Lines 91-94: the content between the tag and its closing tag.
tagInterior(doc, tag, closeIndex) ==
    Range(positionAt(doc, tag.end), positionAt(doc, closeIndex))

\* Lines 96-99: bestRange after the closing tag of tag was found.
tagAccept(doc, pos, tag, closeIndex, best) ==
    LET range == tagInterior(doc, tag, closeIndex)
    IN  IF accepts(best, range, pos) THEN range ELSE best

\* One iteration of the loop over the tags (lines 81-105): the new bestRange.
tagBody(doc, pos, tag, best) ==
    LET c == tagClose(doc, tag.name, tag.end, 1)
    IN  IF c = -1 THEN best ELSE tagAccept(doc, pos, tag, c, best)

\* The loop over the tags (line 80) from index idx down to 0.
RECURSIVE tagLoop(_, _, _, _, _)
tagLoop(doc, pos, tgs, idx, best) ==
    IF idx < 0 THEN best
    ELSE tagLoop(doc, pos, tgs, idx - 1, tagBody(doc, pos, tgs[idx + 1], best))

findEnclosingTags(doc, pos) ==
    LET tgs == tokenizeLoop(doc, offsetAt(doc, pos), 0, <<>>)
    IN  tagLoop(doc, pos, tgs, Len(tgs) - 1, Null)

(***************************************************************************)
(* SpecScan: one call of one matcher, a loop iteration per step            *)
(***************************************************************************)

\* Every cursor position of a document.
Positions(doc) == {positionAt(doc, o) : o \in 0 .. Len(doc)}

IdleScan ==
    /\ position = Position(0, 0)
    /\ matcher = "none"
    /\ pc = "idle"
    /\ i = 0
    /\ bestRange = Null
    /\ lastIndex = 0
    /\ tags = <<>>
    /\ depth = 0
    /\ steps = 0

IdleEditor ==
    /\ activeEditor = FALSE
    /\ selections = <<>>
    /\ prior = <<>>
    /\ ran = FALSE

IdleKeys ==
    /\ shortcut = Undefined
    /\ commands = {}
    /\ keybindingDisposable = Null
    /\ subscriptions = <<>>
    /\ failed = FALSE
    /\ events = 0

\* The matcher has read the text and the offset and set bestRange to null
\* (lines 16-20, 58-63).
InitScan ==
    /\ matcher \in {"brackets", "tags"}
    /\ text \in (IF matcher = "brackets" THEN BracketTexts ELSE TagTexts \cup MixedTexts)
    /\ position \in Positions(text)
    /\ pc = (IF matcher = "brackets" THEN "brackets" ELSE "tokenize")
    /\ i = (IF matcher = "brackets" THEN offsetAt(text, position) ELSE 0)
    /\ bestRange = Null
    /\ lastIndex = 0
    /\ tags = <<>>
    /\ depth = 0
    /\ steps = 0
    /\ IdleEditor
    /\ IdleKeys

\* Lines 23-50: one iteration of the backward loop.
BracketIter ==
    /\ pc = "brackets"
    /\ i >= 0
    /\ bestRange' = bracketBody(text, position, i, bestRange)
    /\ i' = i - 1
    /\ steps' = steps + 1
    /\ UNCHANGED <<text, position, matcher, pc, lastIndex, tags, depth>>
    /\ UNCHANGED <<editorVars, keyVars>>

\* Lines 23, 51: the loop is over, bestRange is returned.
BracketReturn ==
    /\ pc = "brackets"
    /\ i < 0
    /\ pc' = "done"
    /\ steps' = steps + 1
    /\ UNCHANGED <<text, position, matcher, i, bestRange, lastIndex, tags, depth>>
    /\ UNCHANGED <<editorVars, keyVars>>

\* Lines 66-75: one exec of openingTagRegex; when the loop ends the loop over
\* the tags starts at the last tag (lines 77-80).
TokenizeIter ==
    /\ pc = "tokenize"
    /\ \E r \in {tokenizeBody(text, offsetAt(text, position), lastIndex, tags)} :
          /\ lastIndex' = r.lastIndex
          /\ tags' = r.tags
          /\ pc' = (IF r.go THEN "tokenize" ELSE "tags")
          /\ i' = (IF r.go THEN i ELSE Len(r.tags) - 1)
    /\ steps' = steps + 1
    /\ UNCHANGED <<text, position, matcher, bestRange, depth>>
    /\ UNCHANGED <<editorVars, keyVars>>

\* Lines 80-85: the closing scan of tags[i] starts just past the tag.
TagIterBegin ==
    /\ pc = "tags"
    /\ i >= 0
    /\ lastIndex' = tags[i + 1].end
    /\ depth' = 1
    /\ pc' = "closing"
    /\ steps' = steps + 1
    /\ UNCHANGED <<text, position, matcher, i, bestRange, tags>>
    /\ UNCHANGED <<editorVars, keyVars>>

\* Lines 86-105: one exec of closingTagRegex.
ClosingIter ==
    /\ pc = "closing"
    /\ \E r \in {closingBody(text, tags[i + 1].name, lastIndex, depth)} :
          /\ lastIndex' = r.lastIndex
          /\ depth' = r.depth
          /\ pc' = (IF r.state = "scan" THEN "closing" ELSE "tags")
          /\ i' = (IF r.state = "scan" THEN i ELSE i - 1)
          /\ bestRange' = (IF r.state = "closed"
                           THEN tagAccept(text, position, tags[i + 1], r.index, bestRange)
                           ELSE bestRange)
    /\ steps' = steps + 1
    /\ UNCHANGED <<text, position, matcher, tags>>
    /\ UNCHANGED <<editorVars, keyVars>>

\* Lines 80, 108: the loop is over, bestRange is returned.
TagReturn ==
    /\ pc = "tags"
    /\ i < 0
    /\ pc' = "done"
    /\ steps' = steps + 1
    /\ UNCHANGED <<text, position, matcher, i, bestRange, lastIndex, tags, depth>>
    /\ UNCHANGED <<editorVars, keyVars>>

NextScan ==
    \/ BracketIter
    \/ BracketReturn
    \/ TokenizeIter
    \/ TagIterBegin
    \/ ClosingIter
    \/ TagReturn

SpecScan == InitScan /\ [][NextScan]_vars

\* The stepped matcher returns what the matcher operators compute.
ScanAgrees ==
    pc = "done" =>
        bestRange = (IF matcher = "brackets" THEN findEnclosingBrackets(text, position)
                     ELSE findEnclosingTags(text, position))

(***************************************************************************)
(* compareRanges and the command extension.selectEnclosing (lines 111-148) *)
(***************************************************************************)

\* The mutant of compareRanges: the start comparison is the other way round.
compareRangesOuterFirst(a, b) ==
    LET startCompare == compareTo(a.start, b.start)
    IN  IF startCompare # 0 THEN startCompare ELSE compareTo(a.end, b.end)

compareRanges(a, b) ==
    LET startCompare == compareTo(b.start, a.start)
    IN  IF startCompare # 0 THEN startCompare ELSE compareTo(a.end, b.end)

\* Array.prototype.sort(compareRanges), a stable sort: r is put behind the
\* sorted elements that compare before or equal to it.
RECURSIVE insertSorted(_, _)
insertSorted(s, r) ==
    IF s = <<>> THEN <<r>>
    ELSE IF compareRanges(Head(s), r) <= 0 THEN <<Head(s)>> \o insertSorted(Tail(s), r)
    ELSE <<r>> \o s

RECURSIVE sortRanges(_)
sortRanges(s) ==
    IF s = <<>> THEN <<>>
    ELSE insertSorted(sortRanges(SubSeq(s, 1, Len(s) - 1)), s[Len(s)])

\* Lines 133-135: the matchers' results that are not null, the tag's first.
candidatesOf(tagRange, bracketRange) ==
    (IF tagRange # Null THEN <<tagRange>> ELSE <<>>)
        \o (IF bracketRange # Null THEN <<bracketRange>> ELSE <<>>)

\* The mutant of chosen: a cursor without a match collapses to its position.
chosenOrCaret(sorted, selection) ==
    IF sorted # <<>> THEN Selection(sorted[1].start, sorted[1].end)
    ELSE Selection(selection.active, selection.active)

\* Lines 141-144: the selection pushed for a cursor whose sorted candidates
\* are given.
chosen(sorted, selection) ==
    IF sorted # <<>> THEN Selection(sorted[1].start, sorted[1].end) ELSE selection

\* The callback of editor.selections.forEach (lines 128-145): the selection
\* pushed to newSelections for one selection.
newSelection(doc, selection) ==
    LET pos == selection.active
        candidates == candidatesOf(findEnclosingTags(doc, pos),
                                   findEnclosingBrackets(doc, pos))
        filtered == SelectSeq(candidates, LAMBDA r : containsPos(r, pos))
    IN  chosen(sortRanges(filtered), selection)

\* The documents an editor shows.
EditorTexts == MixedTexts \cup TagTexts

\* Either no text editor is active, or one shows a document with a single
\* selection: a cursor, or a selection reaching back to the document's start.
InitEditor ==
    /\ \/ /\ activeEditor = FALSE
          /\ text = <<>>
          /\ selections = <<>>
       \/ /\ activeEditor = TRUE
          /\ text \in EditorTexts
          /\ \E p \in Positions(text) : \E a \in {p, Position(0, 0)} :
                selections = <<Selection(a, p)>>
    /\ prior = <<>>
    /\ ran = FALSE
    /\ IdleScan
    /\ IdleKeys

\* The handler of extension.selectEnclosing (lines 121-148).
SelectEnclosing ==
    /\ selections' = (IF activeEditor
                      THEN [k \in 1 .. Len(selections) |-> newSelection(text, selections[k])]
                      ELSE selections)
    /\ prior' = selections
    /\ ran' = TRUE
    /\ UNCHANGED <<text, activeEditor>>
    /\ UNCHANGED <<scanVars, keyVars>>

\* The user adds a cursor on the line below the last cursor, at its column
\* or at the end of a shorter line.
AddCursorBelow ==
    /\ activeEditor
    /\ selections # <<>>
    /\ LET last == selections[Len(selections)].active
           l == last.line + 1
           c == IF last.character > LineLength(text, l) THEN LineLength(text, l)
                ELSE last.character
       IN  /\ l < LineCount(text)
           /\ selections' = Append(selections, Selection(Position(l, c), Position(l, c)))
    /\ prior' = <<>>
    /\ ran' = FALSE
    /\ UNCHANGED <<text, activeEditor>>
    /\ UNCHANGED <<scanVars, keyVars>>

\* The user closes the editor: no text editor is active any more.
CloseEditor ==
    /\ activeEditor
    /\ activeEditor' = FALSE
    /\ text' = <<>>
    /\ selections' = <<>>
    /\ prior' = <<>>
    /\ ran' = FALSE
    /\ UNCHANGED <<scanVars, keyVars>>

Next ==
    \/ SelectEnclosing
    \/ AddCursorBelow
    \/ CloseEditor

Spec == InitEditor /\ [][Next]_vars

(***************************************************************************)
(* activate: the keybinding trigger command (lines 150-184)                *)
(***************************************************************************)

\* The values the user may give bracketTagSelector.shortcut; Undefined is
\* the key left unset.
Shortcuts == {"ctrl+[", "ctrl+]", "alt+e"}

\* The command id `bracketTagSelector.${keybinding}` (line 166).
TriggerId(keybinding) == <<"bracketTagSelector", keybinding>>

\* The command id 'extension.selectEnclosing' (line 121).
SelectEnclosingId == <<"extension", "selectEnclosing">>

\* config.get<string>('shortcut', 'ctrl+[') (line 157).
configGet(value) == IF value = Undefined THEN "ctrl+[" ELSE value

\* A command id is registered with the host.
Registered(cmds, id) == \E r \in cmds : r.command = id

\* The Disposable vscode.commands.registerCommand returns for the n-th
\* registration of the extension.
Disposable(id, n) == [command |-> id, reg |-> n]

\* disposable.dispose(): the registration is gone; disposing again does
\* nothing.
dispose(cmds, d) == cmds \ {d}

\* The mutant of cleanUp: the previous binding is never disposed.
cleanUpSkipped(cmds, disp) == cmds

\* Lines 160-162: the previous binding is disposed, if there is one.
cleanUp(cmds, disp) == IF disp # Null THEN dispose(cmds, disp) ELSE cmds

\* updateKeybinding (lines 155-171) run with the given registry, closure
\* variable, subscriptions and configuration value.  registerCommand throws
\* when the id is already registered: the assignment and the push are then
\* skipped.
updateKeybinding(cmds, disp, subs, value) ==
    LET keybinding == configGet(value)
        cleaned == cleanUp(cmds, disp)
        d == Disposable(TriggerId(keybinding), Len(subs))
    IN  IF Registered(cleaned, TriggerId(keybinding))
        THEN [commands |-> cleaned, keybindingDisposable |-> disp,
              subscriptions |-> subs, failed |-> TRUE]
        ELSE [commands |-> cleaned \cup {d}, keybindingDisposable |-> d,
              subscriptions |-> Append(subs, d), failed |-> FALSE]

\* The listener of onDidChangeConfiguration, which activate pushes last.
Listener == [command |-> <<"onDidChangeConfiguration">>, reg |-> 0]

\* The listener is subscribed: activate has run to its end.
Listening == \E k \in 1 .. Len(subscriptions) : subscriptions[k] = Listener

\* The extension host before activation, with the user's configuration.
InitKeys ==
    /\ shortcut \in Shortcuts \cup {Undefined}
    /\ commands = {}
    /\ keybindingDisposable = Null
    /\ subscriptions = <<>>
    /\ failed = FALSE
    /\ events = 0
    /\ text = <<>>
    /\ IdleScan
    /\ IdleEditor

\* activate (lines 119-185): the command is registered and pushed, the
\* keybinding is set up, the configuration listener is pushed.
Activate ==
    /\ subscriptions = <<>>
    /\ ~failed
    /\ LET main == Disposable(SelectEnclosingId, 0)
           u == updateKeybinding({main}, keybindingDisposable, <<main>>, shortcut)
       IN  /\ commands' = u.commands
           /\ keybindingDisposable' = u.keybindingDisposable
           /\ subscriptions' = (IF u.failed THEN u.subscriptions
                                ELSE Append(u.subscriptions, Listener))
           /\ failed' = u.failed
    /\ UNCHANGED <<shortcut, events, text>>
    /\ UNCHANGED <<scanVars, editorVars>>

\* The user sets bracketTagSelector.shortcut: the listener sees an event
\* that affects the key (lines 177-183).
ChangeShortcut ==
    /\ Listening
    /\ events < MaxUpdates
    /\ \E v \in Shortcuts \cup {Undefined} :
          /\ shortcut' = v
          /\ LET u == updateKeybinding(commands, keybindingDisposable, subscriptions, v)
             IN  /\ commands' = u.commands
                 /\ keybindingDisposable' = u.keybindingDisposable
                 /\ subscriptions' = u.subscriptions
                 /\ failed' = u.failed
    /\ events' = events + 1
    /\ UNCHANGED text
    /\ UNCHANGED <<scanVars, editorVars>>

\* The user changes another setting: the event does not affect the key and
\* the listener does nothing (line 178).
ChangeOther ==
    /\ Listening
    /\ events < MaxUpdates
    /\ events' = events + 1
    /\ UNCHANGED <<shortcut, commands, keybindingDisposable, subscriptions, failed, text>>
    /\ UNCHANGED <<scanVars, editorVars>>

NextKeys ==
    \/ Activate
    \/ ChangeShortcut
    \/ ChangeOther

SpecKeys == InitKeys /\ [][NextKeys]_vars

(***************************************************************************)
(* Properties of the matchers                                              *)
(***************************************************************************)

\* The offset of the cursor a matcher of SpecScan runs for.
Query == offsetAt(text, position)

OpeningChars == {brackets[k][1] : k \in 1 .. Len(brackets)}

ClosingCharOf(c) == brackets[CHOOSE k \in 1 .. Len(brackets) : brackets[k][1] = c][2]

\* The depth counter after offset j for the opening bracket at offset o:
\* 1, plus the brackets of o's kind opened, minus those closed, in o+1 .. j.
BracketDepth(doc, o, j) ==
    1 + Cardinality({k \in o + 1 .. j : CharAt(doc, k) = CharAt(doc, o)})
      - Cardinality({k \in o + 1 .. j : CharAt(doc, k) = ClosingCharOf(CharAt(doc, o))})

\* The balanced pairs <<o, j>> of a document: o holds an opening bracket and
\* j is the first later offset at which its depth counter is 0.
BalancedPairs(doc) ==
    {e \in (0 .. Len(doc) - 1) \X (0 .. Len(doc) - 1) :
        /\ CharAt(doc, e[1]) \in OpeningChars
        /\ e[2] > e[1]
        /\ BracketDepth(doc, e[1], e[2]) = 0
        /\ \A k \in e[1] + 1 .. e[2] - 1 : BracketDepth(doc, e[1], k) # 0}

\* The balanced pairs whose interior contains offset q.
EnclosingPairs(doc, q) == {e \in BalancedPairs(doc) : e[1] + 1 <= q /\ q <= e[2]}

\* A range is the interior between offsets o and j of the document.
IsInterior(doc, r, o, j) ==
    r # Null /\ offsetAt(doc, r.start) = o /\ offsetAt(doc, r.end) = j

\* C1: findEnclosingBrackets returns the interior (o+1, j) of the balanced
\* pair with the greatest opening offset o among the pairs whose interior
\* contains the cursor's offset, and null when there is no such pair.
C1_InnermostBracketPair ==
    (pc = "done" /\ matcher = "brackets") =>
        LET E == EnclosingPairs(text, Query)
        IN  IF E = {} THEN bestRange = Null
            ELSE LET top == CHOOSE e \in E : \A f \in E : f[1] <= e[1]
                 IN  IsInterior(text, bestRange, top[1] + 1, top[2])

\* The bracket matcher has returned for a cursor inside two nested pairs of
\* different kinds.
C1_Witness ==
    /\ pc = "done"
    /\ matcher = "brackets"
    /\ bestRange # Null
    /\ \E e, f \in EnclosingPairs(text, Query) :
          e[1] < f[1] /\ CharAt(text, e[1]) # CharAt(text, f[1])

\* C9: once bestRange holds an accepted candidate, no later iteration of
\* either matcher replaces it.
C9_BestRangeNeverReplaced == [][bestRange # Null => bestRange' = bestRange]_vars

\* The tag matcher holds a bestRange and is about to try an outer tag whose
\* interior contains the cursor as well.
C9_Witness ==
    /\ pc = "tags"
    /\ i >= 0
    /\ bestRange # Null
    /\ tagBody(text, position, tags[i + 1], Null) # Null

\* An upper bound of the steps a call still takes: the iterations left of
\* the loop it is in, and Len(text) + 3 steps for every tag still to try.
StepsLeft ==
    LET n == Len(text)
        w == n + 3
    IN  CASE pc = "brackets" -> i + 2
          [] pc = "tokenize" -> (n - lastIndex + 1) + w * (Len(tags) + n - lastIndex) + 1
          [] pc = "tags" -> w * (i + 1) + 1
          [] pc = "closing" -> w * i + (n - lastIndex + 2)
          [] OTHER -> 0

\* StepsLeft when a call starts.
StepsAtStart ==
    IF matcher = "brackets" THEN Query + 2
    ELSE (Len(text) + 1) + (Len(text) + 3) * Len(text) + 1

\* Every match of the regex in use is non-empty and lies at or after the
\* resume position, so the exec moves the resume position strictly forward.
MatchAdvances ==
    /\ pc = "tokenize" =>
          LET m == openingExec(text, lastIndex)
          IN  m # Null => (m.index >= lastIndex /\ m.end > m.index /\ m.end <= Len(text))
    /\ pc = "closing" =>
          LET m == closingExec(text, tags[i + 1].name, lastIndex)
          IN  m # Null => (m.index >= lastIndex /\ m.end > m.index /\ m.end <= Len(text))

\* C7: both matchers terminate for every text and offset: the backward and
\* forward loops are bounded by the text length, every regex match is
\* non-empty, so the steps run and the bound on the steps left never exceed
\* the bound the call started with, and the call never stops before it
\* returns (an exec in the regex loops is always possible; the other loops
\* either iterate or return).
C7_Terminates ==
    /\ MatchAdvances
    /\ StepsLeft >= 0
    /\ steps + StepsLeft <= StepsAtStart
    /\ pc \in {"brackets", "tokenize", "tags", "closing", "done"}
    /\ pc \in {"brackets", "tags"} =>
          ENABLED (BracketIter \/ BracketReturn \/ TagIterBegin \/ TagReturn)
    /\ pc = "closing" => i + 1 \in DOMAIN tags

\* The tag matcher has returned after tokenizing two tags and scanning for
\* their closing tags.
C7_Witness ==
    /\ pc = "done"
    /\ matcher = "tags"
    /\ Len(tags) >= 2
    /\ bestRange # Null

\* An opening tag whose name is exactly the given name starts at offset p:
\* "<", the name as the whole run of word characters, and a later ">".
OpensNamed(doc, name, p) ==
    /\ CharAt(doc, p) = "<"
    /\ CharAt(doc, p + 1) \in WordChars
    /\ SubSeq(doc, p + 2, WordRunEnd(doc, p + 1)) = name
    /\ FirstGt(doc, p + 1) # -1

\* The depth of a tag named name whose interior starts at from, after the
\* tags that start before upto: 1, plus the opening tags of that name,
\* minus the closing tags </name>.
TagDepth(doc, name, from, upto) ==
    1 + Cardinality({p \in from .. upto - 1 : OpensNamed(doc, name, p)})
      - Cardinality({p \in from .. upto - 1 : closesAt(doc, name, p)})

\* The offset of the closing tag at which the depth of the tag returns to
\* 0 for the first time, or -1.
NamedClose(doc, tag) ==
    LET S == {p \in tag.end .. Len(doc) - 1 :
                closesAt(doc, tag.name, p) /\ TagDepth(doc, tag.name, tag.end, p + 1) = 0}
    IN  IF S = {} THEN -1 ELSE Min(S)

\* C2: findEnclosingTags returns the interior (tag.end, closingTagStart) of
\* the rightmost recorded opening tag that has a depth-balanced closing tag
\* and whose interior contains the cursor's offset, and null only when no
\* recorded tag has one.
C2_InnermostTagPair ==
    (pc = "done" /\ matcher = "tags") =>
        LET T == {k \in 1 .. Len(tags) :
                    /\ NamedClose(text, tags[k]) # -1
                    /\ tags[k].end <= Query
                    /\ Query <= NamedClose(text, tags[k])}
        IN  IF T = {} THEN bestRange = Null
            ELSE IsInterior(text, bestRange, tags[Max(T)].end, NamedClose(text, tags[Max(T)]))

\* C3: during the closing scan of a recorded tag named N the depth is 1,
\* plus the opening tags named N, minus the closing tags </N>, among the
\* tags scanned so far: tags of any other name leave it unchanged.
C3_DepthCountsSameName ==
    pc = "closing" =>
        depth = TagDepth(text, tags[i + 1].name, tags[i + 1].end, lastIndex)

(***************************************************************************)
(* Properties of the command                                               *)
(***************************************************************************)

\* The selection the command makes of a range.
AsSelection(r) == Selection(r.start, r.end)

\* Range r is more nested than range q: it starts later, or starts at the
\* same offset and ends earlier.
MoreNested(doc, r, q) ==
    \/ offsetAt(doc, r.start) > offsetAt(doc, q.start)
    \/ /\ offsetAt(doc, r.start) = offsetAt(doc, q.start)
       /\ offsetAt(doc, r.end) < offsetAt(doc, q.end)

\* Of two ranges with the same start, sorting with compareRanges puts the
\* one that ends earlier first, whichever order they are given in.
EarlierEndFirst(doc, r) ==
    \A e \in Positions(doc) :
        PosLE(r.start, e) =>
            LET q == Range(r.start, e)
            IN  /\ offsetAt(doc, e) < offsetAt(doc, r.end) =>
                      (sortRanges(<<r, q>>)[1] = q /\ sortRanges(<<q, r>>)[1] = q)
                /\ offsetAt(doc, r.end) < offsetAt(doc, e) =>
                      (sortRanges(<<r, q>>)[1] = r /\ sortRanges(<<q, r>>)[1] = r)

\* What C4 says of the cursor that had selection before and has selection
\* sel after the command.
RankedChoice(doc, before, sel) ==
    LET t == findEnclosingTags(doc, before.active)
        b == findEnclosingBrackets(doc, before.active)
    IN  /\ (t # Null /\ b # Null) =>
              /\ MoreNested(doc, t, b) => sel = AsSelection(t)
              /\ MoreNested(doc, b, t) => sel = AsSelection(b)
              /\ sel \in {AsSelection(t), AsSelection(b)}
        /\ t # Null => EarlierEndFirst(doc, t)
        /\ b # Null => EarlierEndFirst(doc, b)
        /\ (t # Null /\ b = Null) => sel = AsSelection(t)
        /\ (t = Null /\ b # Null) => sel = AsSelection(b)
        /\ sel # before =>
              \/ t # Null /\ sel = AsSelection(t)
              \/ b # Null /\ sel = AsSelection(b)

\* C4: when both matchers return a span for a cursor the command selects
\* the one that starts later, or ends earlier when the starts are equal;
\* when exactly one returns a span that span is selected; the selected span
\* is always one of the matchers' results.
C4_SelectsMoreNested ==
    (ran /\ activeEditor) =>
        /\ Len(selections) = Len(prior)
        /\ \A k \in 1 .. Len(prior) : RankedChoice(text, prior[k], selections[k])

\* The command has run for a cursor inside a tag pair and, further in, a
\* bracket pair: the bracket span, the second candidate, was selected.
C4_Witness ==
    /\ ran
    /\ activeEditor
    /\ \E k \in 1 .. Len(prior) :
          LET t == findEnclosingTags(text, prior[k].active)
              b == findEnclosingBrackets(text, prior[k].active)
          IN  /\ t # Null
              /\ b # Null
              /\ MoreNested(text, b, t)
              /\ selections[k] = AsSelection(b)
              /\ selections[k] # prior[k]

\* Neither matcher yields a span containing the active position of a
\* selection.
NoMatch(doc, selection) ==
    LET t == findEnclosingTags(doc, selection.active)
        b == findEnclosingBrackets(doc, selection.active)
    IN  /\ t = Null \/ ~containsPos(t, selection.active)
        /\ b = Null \/ ~containsPos(b, selection.active)

\* C6: the command leaves the selection of a cursor without a match as it
\* was, anchor and active position, keeps the number and the order of the
\* selections, and changes nothing when no editor is active.
C6_NoMatchPassthrough ==
    ran =>
        /\ Len(selections) = Len(prior)
        /\ activeEditor =>
              \A k \in 1 .. Len(prior) :
                 NoMatch(text, prior[k]) => selections[k] = prior[k]
        /\ ~activeEditor => selections = prior

\* The command has run with two cursors: the first, a non-empty selection
\* without a match, was kept; the second got a new selection.
C6_Witness ==
    /\ ran
    /\ activeEditor
    /\ Len(prior) >= 2
    /\ NoMatch(text, prior[1])
    /\ prior[1].anchor # prior[1].active
    /\ selections[1] = prior[1]
    /\ selections[2] # prior[2]

\* C10: the spans the two matchers return for a cursor never start at the
\* same offset, so compareRanges decides between them on the starts alone.
C10_StartsDiffer ==
    \A k \in 1 .. Len(selections) :
        LET t == findEnclosingTags(text, selections[k].active)
            b == findEnclosingBrackets(text, selections[k].active)
        IN  (t # Null /\ b # Null) =>
                /\ offsetAt(text, t.start) # offsetAt(text, b.start)
                /\ compareTo(b.start, t.start) # 0
                /\ compareTo(t.start, b.start) # 0

\* A cursor for which both matchers return a span, the bracket pair
\* directly inside the tag pair.
C10_Witness ==
    \E k \in 1 .. Len(selections) :
        LET t == findEnclosingTags(text, selections[k].active)
            b == findEnclosingBrackets(text, selections[k].active)
        IN  /\ t # Null
            /\ b # Null
            /\ offsetAt(text, b.start) = offsetAt(text, t.start) + 1

\* A range is the interior of an opening tag and of the closing tag at
\* which that tag's depth returns to 0.
IsTagPairInterior(doc, r) ==
    \E p \in 0 .. Len(doc) - 1 :
        LET m == openingExec(doc, p)
        IN  /\ m # Null
            /\ m.index = p
            /\ m.end = offsetAt(doc, r.start)
            /\ NamedClose(doc, m) = offsetAt(doc, r.end)

\* A range is the interior of a balanced bracket pair.
IsBracketPairInterior(doc, r) ==
    <<offsetAt(doc, r.start) - 1, offsetAt(doc, r.end)>> \in BalancedPairs(doc)

\* A range lies around offset q.
Around(doc, r, q) == offsetAt(doc, r.start) <= q /\ q <= offsetAt(doc, r.end)

\* C5: every span a matcher returns, and every span the command applies,
\* lies around the offset of the cursor it was computed for, starts just
\* after a matched opener and ends at the position of the matching closer.
C5_SpanAroundCursor ==
    /\ \A k \in 1 .. Len(selections) :
          LET q == offsetAt(text, selections[k].active)
              t == findEnclosingTags(text, selections[k].active)
              b == findEnclosingBrackets(text, selections[k].active)
          IN  /\ t # Null => (Around(text, t, q) /\ IsTagPairInterior(text, t))
              /\ b # Null => (Around(text, b, q) /\ IsBracketPairInterior(text, b))
    /\ (ran /\ activeEditor) =>
          \A k \in 1 .. Len(prior) :
             selections[k] # prior[k] =>
                LET r == Range(selections[k].anchor, selections[k].active)
                IN  /\ Around(text, r, offsetAt(text, prior[k].active))
                    /\ IsTagPairInterior(text, r) \/ IsBracketPairInterior(text, r)

(***************************************************************************)
(* Properties of the keybinding                                            *)
(***************************************************************************)

\* The trigger commands that are registered and not disposed.
LiveTriggers == {r \in commands : r.command[1] = "bracketTagSelector"}

\* C8: once activate has run, and after every configuration change,
\* exactly one trigger command is live; it is the one named after the value
\* of the shortcut read at the latest update and the one the extension
\* holds in keybindingDisposable; every earlier registration the extension
\* subscribed is disposed, and no registration has failed.
C8_OneLiveTrigger ==
    Listening =>
        /\ ~failed
        /\ keybindingDisposable # Null
        /\ LiveTriggers = {keybindingDisposable}
        /\ keybindingDisposable.command = TriggerId(configGet(shortcut))
        /\ Disposable(SelectEnclosingId, 0) \in commands
        /\ \A k \in 1 .. Len(subscriptions) :
              (subscriptions[k] \in commands /\ subscriptions[k].command[1] = "bracketTagSelector")
                  => subscriptions[k] = keybindingDisposable

\* The shortcut has been changed at least twice since activation and the
\* live trigger is named after a value other than the default.
C8_Witness ==
    /\ Listening
    /\ events >= 2
    /\ Len(subscriptions) >= 5
    /\ keybindingDisposable # Null
    /\ keybindingDisposable.command = TriggerId("alt+e")
    /\ keybindingDisposable \in commands

====
